---- MODULE Spec2Model ----
(***************************************************************************)
(* Editor settings resolution (crates/editor/src/editor_settings.rs).      *)
(*                                                                         *)
(* A settings document is a JSON object.  It is modelled as a partial      *)
(* function: a key outside its DOMAIN is an absent (None / null) option.   *)
(* JSON booleans are TLA+ booleans, JSON numbers are integers (the two     *)
(* f32 options only ever carry integral values here), JSON strings are     *)
(* strings.  An enum variant of the Rust types is written with its Rust    *)
(* name ("CmdOrCtrl"), its JSON spelling with the snake_case name serde    *)
(* gives it ("cmd_or_ctrl"), so decoding and encoding are real tables.     *)
(***************************************************************************)
EXTENDS Integers, Sequences, FiniteSets, TLC

VARIABLES sources, installed, outcome, reading, held, seen, returned, lastOp, steps

vars == <<sources, installed, outcome, reading, held, seen, returned, lastOp, steps>>

\* Number of external events (document changes, read sessions, accessor
\* calls) in one run.
MaxSteps == 2

-----------------------------------------------------------------------------
(* The shape of EditorSettings and of EditorSettingsContent.               *)

BoolFields ==
    { "cursor_blink", "hover_popover_enabled", "show_completions_on_input",
      "show_completion_documentation", "use_on_type_format",
      "relative_line_numbers", "redact_private_values", "middle_click_paste",
      "search_wrap", "auto_signature_help", "show_signature_help_after_edits",
      "show_diagnostics_inline" }

EnumFields ==
    { "current_line_highlight", "scroll_beyond_last_line",
      "seed_search_query_from_cursor", "multi_cursor_modifier",
      "double_click_in_multibuffer" }

CountFields ==
    { "completion_documentation_secondary_query_debounce", "expand_excerpt_lines" }

FloatFields == { "vertical_scroll_margin", "scroll_sensitivity" }

ScalarFields == BoolFields \cup EnumFields \cup CountFields \cup FloatFields

Groups == { "toolbar", "scrollbar", "gutter", "jupyter" }

TopFields == ScalarFields \cup Groups

\* Toolbar / ToolbarContent
ToolbarFields == { "breadcrumbs", "quick_actions", "selections_menu" }

\* Scrollbar / ScrollbarContent
ScrollbarFields ==
    { "show", "git_diff", "selected_symbol", "search_results", "diagnostics", "cursors" }

\* Gutter / GutterContent
GutterFields == { "line_numbers", "code_actions", "runnables", "folds" }

\* Jupyter / JupyterContent
JupyterFields == { "enabled" }

GroupFields(g) ==
    CASE g = "toolbar" -> ToolbarFields
      [] g = "scrollbar" -> ScrollbarFields
      [] g = "gutter" -> GutterFields
      [] g = "jupyter" -> JupyterFields

\* The declared types of the top-level scalar fields.
FieldTypes ==
    [k \in ScalarFields |->
        CASE k \in BoolFields -> "bool"
          [] k = "completion_documentation_secondary_query_debounce" -> "u64"
          [] k = "expand_excerpt_lines" -> "u32"
          [] k \in FloatFields -> "f32"
          [] k = "current_line_highlight" -> "CurrentLineHighlight"
          [] k = "scroll_beyond_last_line" -> "ScrollBeyondLastLine"
          [] k = "seed_search_query_from_cursor" -> "SeedQuerySetting"
          [] k = "multi_cursor_modifier" -> "MultiCursorModifier"
          [] k = "double_click_in_multibuffer" -> "DoubleClickInMultibuffer"]

FieldType(k) == FieldTypes[k]

\* The declared type of a field of a nested group.
LeafType(g, f) == IF g = "scrollbar" /\ f = "show" THEN "ShowScrollbar" ELSE "bool"

-----------------------------------------------------------------------------
(* The enumerated types: variants, serde spellings, aliases.               *)

CurrentLineHighlight == { "None", "Gutter", "Line", "All" }

SeedQuerySetting == { "Always", "Selection", "Never" }

DoubleClickInMultibuffer == { "Select", "Open" }

ShowScrollbar == { "Auto", "System", "Always", "Never" }

MultiCursorModifier == { "Alt", "CmdOrCtrl" }

ScrollBeyondLastLine == { "Off", "OnePage", "VerticalScrollMargin" }

EnumTypes ==
    { "CurrentLineHighlight", "SeedQuerySetting", "DoubleClickInMultibuffer",
      "ShowScrollbar", "MultiCursorModifier", "ScrollBeyondLastLine" }

Variants(t) ==
    CASE t = "CurrentLineHighlight" -> CurrentLineHighlight
      [] t = "SeedQuerySetting" -> SeedQuerySetting
      [] t = "DoubleClickInMultibuffer" -> DoubleClickInMultibuffer
      [] t = "ShowScrollbar" -> ShowScrollbar
      [] t = "MultiCursorModifier" -> MultiCursorModifier
      [] t = "ScrollBeyondLastLine" -> ScrollBeyondLastLine

\* #[serde(rename_all = "snake_case")]: the JSON spelling of a variant.
SnakeCase(v) ==
    CASE v = "None" -> "none"
      [] v = "Gutter" -> "gutter"
      [] v = "Line" -> "line"
      [] v = "All" -> "all"
      [] v = "Always" -> "always"
      [] v = "Selection" -> "selection"
      [] v = "Never" -> "never"
      [] v = "Select" -> "select"
      [] v = "Open" -> "open"
      [] v = "Auto" -> "auto"
      [] v = "System" -> "system"
      [] v = "Alt" -> "alt"
      [] v = "CmdOrCtrl" -> "cmd_or_ctrl"
      [] v = "Off" -> "off"
      [] v = "OnePage" -> "one_page"
      [] v = "VerticalScrollMargin" -> "vertical_scroll_margin"

\* The aliases written one variant too high, on MultiCursorModifier::Alt.
AliasesOnAlt(t, v) ==
    IF t = "MultiCursorModifier" /\ v = "Alt" THEN { "cmd", "ctrl" } ELSE {}

\* #[serde(alias = "cmd", alias = "ctrl")] on MultiCursorModifier::CmdOrCtrl:
\* the spellings a variant of type t accepts beside its snake_case name.
Aliases(t, v) ==
    IF t = "MultiCursorModifier" /\ v = "CmdOrCtrl" THEN { "cmd", "ctrl" } ELSE {}

\* #[default] on DoubleClickInMultibuffer::Select
DoubleClickDefault == "Select"

Ok(v) == [ok |-> TRUE, v |-> v]

Failure == [ok |-> FALSE]

\* The spellings derive(Deserialize) accepts for variant v of enum t.
Spellings(t, v) == { SnakeCase(v) } \cup Aliases(t, v)

\* For each enum, the variant each accepted spelling is read as.
VariantOf ==
    [t \in EnumTypes |->
        [s \in UNION { Spellings(t, v) : v \in Variants(t) } |->
            CHOOSE v \in Variants(t) : s \in Spellings(t, v)]]

\* An enum read with a fallback variant for the spellings it does not know.
DeserializeEnumLenient(t, s) ==
    IF s \in DOMAIN VariantOf[t]
    THEN Ok(VariantOf[t][s])
    ELSE Ok(CHOOSE v \in Variants(t) : TRUE)

\* derive(Deserialize) of an enum: the variant whose name or alias is s.
DeserializeEnum(t, s) ==
    IF s \in DOMAIN VariantOf[t] THEN Ok(VariantOf[t][s]) ELSE Failure

\* derive(Serialize) of an enum: always the snake_case name, never an alias.
SerializeEnum(v) == SnakeCase(v)

\* A count read as a signed integer would be.
DeserializeSigned(n) == Ok(n)

\* Deserialize of u64 / u32: a JSON number below zero is rejected.  (The
\* upper ends 2^64-1 and 2^32-1 lie beyond the integers TLC computes with.)
DeserializeCount(n) == IF n >= 0 THEN Ok(n) ELSE Failure

\* A JSON value read as a value of declared type t.  The documents conform
\* to the shape of EditorSettingsContent: a bool option is given a JSON
\* boolean and an f32 option a JSON number, which are taken as they are.
DeserializeValue(t, x) ==
    CASE t \in EnumTypes -> DeserializeEnum(t, x)
      [] t \in { "u64", "u32" } -> DeserializeCount(x)
      [] OTHER -> Ok(x)

\* A typed value written as JSON.
SerializeValue(t, x) == IF t \in EnumTypes THEN SerializeEnum(x) ELSE x

-----------------------------------------------------------------------------
(* EditorSettingsContent: every field, and every field of every group, is  *)
(* an Option.                                                              *)

\* Deserialize of ToolbarContent, ScrollbarContent, GutterContent,
\* JupyterContent: the fields the object gives, each read at its type.
DeserializeGroupContent(g, obj) ==
    LET r == [f \in DOMAIN obj |-> DeserializeValue(LeafType(g, f), obj[f])]
    IN IF \A f \in DOMAIN obj : r[f].ok
       THEN Ok([f \in DOMAIN obj |-> r[f].v])
       ELSE Failure

\* One field of a document read as the Option it is declared to be.
DeserializeContentField(doc, k) ==
    IF k \in Groups
    THEN DeserializeGroupContent(k, doc[k])
    ELSE DeserializeValue(FieldType(k), doc[k])

\* Deserialize of EditorSettingsContent from one source's JSON document.
DeserializeContent(doc) ==
    LET r == [k \in DOMAIN doc |-> DeserializeContentField(doc, k)]
    IN IF \A k \in DOMAIN doc : r[k].ok
       THEN Ok([k \in DOMAIN doc |-> r[k].v])
       ELSE Failure

\* A nested group whose unset fields were written out as false, as they
\* would be had the group's fields not been Options.
SerializeGroupContentFilled(g, c) ==
    [f \in GroupFields(g) |->
        IF f \in DOMAIN c THEN SerializeValue(LeafType(g, f), c[f])
        ELSE IF LeafType(g, f) = "bool" THEN FALSE ELSE "auto"]

\* Serialize of a group's content: a None field is null, and so absent.
SerializeGroupContent(g, c) ==
    [f \in DOMAIN c |-> SerializeValue(LeafType(g, f), c[f])]

\* Serialize of EditorSettingsContent (serde_json::to_value).
SerializeContent(c) ==
    [k \in DOMAIN c |->
        IF k \in Groups
        THEN SerializeGroupContent(k, c[k])
        ELSE SerializeValue(FieldType(k), c[k])]

-----------------------------------------------------------------------------
(* The merge of the sources' JSON, lowest priority first.                  *)

\* A group object merged into the accumulated one: each field the source
\* gives replaces the accumulated field, the others stay.
MergeGroup(target, source) == source @@ target

\* One document merged into the accumulated document.
MergeDocument(target, source) ==
    [k \in DOMAIN target \cup DOMAIN source |->
        IF k \notin DOMAIN source THEN target[k]
        ELSE IF k \in Groups /\ k \in DOMAIN target
             THEN MergeGroup(target[k], source[k])
             ELSE source[k]]

RECURSIVE MergeAll(_, _)
\* The documents of a sequence merged in order into acc.
MergeAll(acc, docs) ==
    IF docs = <<>> THEN acc
    ELSE MergeAll(MergeDocument(acc, Head(docs)), Tail(docs))

-----------------------------------------------------------------------------
(* EditorSettings: every field is required, but for one.                   *)

\* The defaults document: the value each option's documentation declares
\* ("Default: ...").
DefaultDocument ==
    [ cursor_blink |-> TRUE,
      current_line_highlight |-> "all",
      hover_popover_enabled |-> TRUE,
      show_completions_on_input |-> TRUE,
      show_completion_documentation |-> TRUE,
      completion_documentation_secondary_query_debounce |-> 300,
      use_on_type_format |-> TRUE,
      toolbar |-> [ breadcrumbs |-> TRUE, quick_actions |-> TRUE,
                    selections_menu |-> TRUE ],
      scrollbar |-> [ show |-> "auto", git_diff |-> TRUE, search_results |-> TRUE,
                      selected_symbol |-> TRUE, diagnostics |-> TRUE,
                      cursors |-> TRUE ],
      gutter |-> [ line_numbers |-> TRUE, code_actions |-> TRUE,
                   runnables |-> TRUE, folds |-> TRUE ],
      scroll_beyond_last_line |-> "one_page",
      vertical_scroll_margin |-> 3,
      scroll_sensitivity |-> 1,
      relative_line_numbers |-> FALSE,
      seed_search_query_from_cursor |-> "always",
      multi_cursor_modifier |-> "alt",
      redact_private_values |-> FALSE,
      expand_excerpt_lines |-> 3,
      middle_click_paste |-> TRUE,
      double_click_in_multibuffer |-> "select",
      search_wrap |-> TRUE,
      auto_signature_help |-> FALSE,
      show_signature_help_after_edits |-> TRUE,
      jupyter |-> [ enabled |-> TRUE ],
      show_diagnostics_inline |-> FALSE ]

\* A group of the resolved type (Toolbar, Scrollbar, Gutter, Jupyter) read
\* from a JSON object: every field must be there, with a value of its type.
DeserializeGroup(g, obj) ==
    IF GroupFields(g) \subseteq DOMAIN obj
    THEN LET r == [f \in GroupFields(g) |-> DeserializeValue(LeafType(g, f), obj[f])]
         IN IF \A f \in GroupFields(g) : r[f].ok
            THEN Ok([f \in GroupFields(g) |-> r[f].v])
            ELSE Failure
    ELSE Failure

\* Every field treated as double_click_in_multibuffer is, none having a
\* fallback of its own.
MissingFieldNoDefault(k) == Failure

\* Every field falling back to its documented default when absent.
MissingFieldDocumentedDefault(k) ==
    IF k \in Groups
    THEN DeserializeGroup(k, DefaultDocument[k])
    ELSE DeserializeValue(FieldType(k), DefaultDocument[k])

\* What a field absent from the merged JSON resolves to: only
\* double_click_in_multibuffer carries #[serde(default)].
MissingField(k) ==
    IF k = "double_click_in_multibuffer" THEN Ok(DoubleClickDefault) ELSE Failure

\* One field of EditorSettings read from the merged JSON.
DeserializeField(json, k) ==
    IF k \notin DOMAIN json THEN MissingField(k)
    ELSE IF k \in Groups THEN DeserializeGroup(k, json[k])
    ELSE DeserializeValue(FieldType(k), json[k])

\* derive(Deserialize) of EditorSettings (serde_json::from_value).
DeserializeEditorSettings(json) ==
    LET r == [k \in TopFields |-> DeserializeField(json, k)]
    IN IF \A k \in TopFields : r[k].ok
       THEN Ok([k \in TopFields |-> r[k].v])
       ELSE Failure

\* SettingsSources::json_merge: the sources written as JSON, merged lowest
\* priority first, the result read as EditorSettings.
json_merge(contents) ==
    DeserializeEditorSettings(
        MergeAll(<<>>, [i \in DOMAIN contents |-> SerializeContent(contents[i])]))

\* A sequence back to front.
Reverse(s) == [i \in DOMAIN s |-> s[Len(s) + 1 - i]]

\* load with the priority of the sources turned around.
load_reversed(contents) == json_merge(Reverse(contents))

\* impl Settings for EditorSettings :: load
load(contents) == json_merge(contents)

\* One resolution pass over the sources' documents: each is read as an
\* EditorSettingsContent, and a document that cannot be read fails the pass.
Resolve(docs) ==
    LET parsed == [i \in DOMAIN docs |-> DeserializeContent(docs[i])]
    IN IF \A i \in DOMAIN docs : parsed[i].ok
       THEN load([i \in DOMAIN docs |-> parsed[i].v])
       ELSE Failure

-----------------------------------------------------------------------------
(* The sources and the store of the resolved value.                        *)


\* The sources of one resolution pass, lowest priority first.
LayerNames == << "default", "user", "project" >>

Layers == DOMAIN LayerNames

\* The sources above the defaults document.
Overrides == { i \in Layers : LayerNames[i] # "default" }

EmptyDocument == << >>

\* The top-level options a source is seen to change: one of each kind.
EditFields ==
    { "cursor_blink", "current_line_highlight", "multi_cursor_modifier",
      "double_click_in_multibuffer", "expand_excerpt_lines",
      "completion_documentation_secondary_query_debounce",
      "vertical_scroll_margin" }

\* The values a source is seen to give a top-level option: canonical
\* spellings, aliases, and values outside the option's domain.
EditValues(k) ==
    CASE k = "cursor_blink" -> { FALSE }
      [] k = "current_line_highlight" -> { "none", "bogus" }
      [] k = "multi_cursor_modifier" -> { "cmd", "ctrl", "bogus" }
      [] k = "double_click_in_multibuffer" -> { "open" }
      [] k = "expand_excerpt_lines" -> { 0, 5 }
      [] k = "completion_documentation_secondary_query_debounce" -> { -1 }
      [] k = "vertical_scroll_margin" -> { 5 }

\* The fields of nested groups a source is seen to change.
EditLeaves ==
    { << "toolbar", "breadcrumbs" >>, << "toolbar", "quick_actions" >>,
      << "scrollbar", "show" >>, << "jupyter", "enabled" >> }

LeafValues(g, f) ==
    CASE LeafType(g, f) = "ShowScrollbar" -> { "never", "bogus" }
      [] f = "breadcrumbs" -> BOOLEAN
      [] OTHER -> { FALSE }

\* The groups a source is seen to give or drop as a whole.
EditGroups == { "toolbar", "jupyter" }

\* What source i is seen to stop giving: an override any option it gives,
\* the defaults document one option of each kind.
RemovableFields(i) ==
    IF i \in Overrides
    THEN EditFields \cup EditGroups
    ELSE { "cursor_blink", "multi_cursor_modifier", "double_click_in_multibuffer",
           "toolbar", "jupyter" }

RemovableLeaves(i) ==
    IF i \in Overrides
    THEN EditLeaves
    ELSE { << "toolbar", "quick_actions" >>, << "jupyter", "enabled" >> }

GroupValues(g) ==
    IF g = "toolbar"
    THEN { << >>, [ breadcrumbs |-> FALSE, quick_actions |-> FALSE ] }
    ELSE { }

\* doc with key k bound to x.
With(doc, k, x) == (k :> x) @@ doc

\* doc without key k.
Without(doc, k) == [ j \in DOMAIN doc \ { k } |-> doc[j] ]

\* The group g of doc, empty if doc does not give it.
GroupOf(doc, g) == IF g \in DOMAIN doc THEN doc[g] ELSE << >>

None == << >>

Some(x) == << x >>

\* The field of a resolved configuration at a path <<group, field>>.
Get(cfg, path) == cfg[path[1]][path[2]]

\* The fields a caller holding the reference reads one after the other.
ReadPaths == { << "toolbar", "breadcrumbs" >>, << "toolbar", "quick_actions" >> }

Init ==
    /\ sources = << DefaultDocument, EmptyDocument, EmptyDocument >>
    /\ installed = None
    /\ outcome = None
    /\ reading = FALSE
    /\ held = None
    /\ seen = << >>
    /\ returned = None
    /\ lastOp = "init"
    /\ steps = 0

\* load with the store borrowed whatever references are out.
CanLoadUnchecked == TRUE

\* load takes `&mut AppContext`: it cannot run while a caller holds the
\* `&EditorSettings` it got from a `&AppContext`.
CanLoad == ~reading

\* What the store holds after a pass: the new value of a pass that
\* succeeded, the value it held before a pass that failed.
Install(result) == IF result.ok THEN Some(result.v) ELSE installed

\* A resolution pass over docs, and the installation of its result.
Recompute(docs) ==
    /\ CanLoad
    /\ sources' = docs
    /\ \E result \in { Resolve(docs) } :
          /\ outcome' = Some(result)
          /\ installed' = Install(result)
    /\ lastOp' = "load"
    /\ UNCHANGED << reading, held, seen, returned >>

\* A pass over unchanged sources (the first one installs the settings).
Reload ==
    /\ Recompute(sources)
    /\ UNCHANGED steps

\* A source now gives top-level option k the value x.
SetField(i, k, x) ==
    /\ steps < MaxSteps
    /\ steps' = steps + 1
    /\ Recompute([sources EXCEPT ![i] = With(@, k, x)])

\* A source no longer gives top-level option (or group) k.
RemoveField(i, k) ==
    /\ steps < MaxSteps
    /\ k \in DOMAIN sources[i]
    /\ steps' = steps + 1
    /\ Recompute([sources EXCEPT ![i] = Without(@, k)])

\* A source now gives field f of group g the value x.
SetGroupField(i, g, f, x) ==
    /\ steps < MaxSteps
    /\ steps' = steps + 1
    /\ Recompute([sources EXCEPT ![i] = With(@, g, With(GroupOf(@, g), f, x))])

\* A source no longer gives field f of group g, which it still gives.
RemoveGroupField(i, g, f) ==
    /\ steps < MaxSteps
    /\ g \in DOMAIN sources[i]
    /\ f \in DOMAIN sources[i][g]
    /\ steps' = steps + 1
    /\ Recompute([sources EXCEPT ![i] = With(@, g, Without(@[g], f))])

\* A source now gives group g as the object obj.
SetGroup(i, g, obj) ==
    /\ steps < MaxSteps
    /\ steps' = steps + 1
    /\ Recompute([sources EXCEPT ![i] = With(@, g, obj)])

\* EditorSettings::get_global(cx): a caller takes the reference.
BeginRead ==
    /\ ~reading
    /\ installed # None
    /\ steps < MaxSteps
    /\ steps' = steps + 1
    /\ reading' = TRUE
    /\ held' = installed
    /\ seen' = << >>
    /\ UNCHANGED << sources, installed, outcome, returned, lastOp >>

\* The caller reads one more field through the reference.
ReadField(p) ==
    /\ reading
    /\ p \notin DOMAIN seen
    /\ seen' = With(seen, p, Get(installed[1], p))
    /\ UNCHANGED << sources, installed, outcome, reading, held, returned, lastOp, steps >>

\* The caller drops the reference.
EndRead ==
    /\ reading
    /\ reading' = FALSE
    /\ held' = None
    /\ seen' = << >>
    /\ UNCHANGED << sources, installed, outcome, returned, lastOp, steps >>

\* The accessor reading the flag of another group.
JupyterEnabledOfToolbar(cfg) == cfg.toolbar.breadcrumbs

\* What jupyter_enabled reads of the settings it is given.
JupyterEnabledOf(cfg) == cfg.jupyter.enabled

\* EditorSettings::jupyter_enabled(cx)
jupyter_enabled ==
    /\ installed # None
    /\ steps < MaxSteps
    /\ steps' = steps + 1
    /\ returned' = Some(JupyterEnabledOf(installed[1]))
    /\ lastOp' = "jupyter_enabled"
    /\ UNCHANGED << sources, installed, outcome, reading, held, seen >>

Next ==
    \/ Reload
    \/ \E i \in Overrides, k \in EditFields : \E x \in EditValues(k) : SetField(i, k, x)
    \/ \E i \in Layers : \E k \in RemovableFields(i) : RemoveField(i, k)
    \/ \E i \in Overrides, p \in EditLeaves :
          \E x \in LeafValues(p[1], p[2]) : SetGroupField(i, p[1], p[2], x)
    \/ \E i \in Layers : \E p \in RemovableLeaves(i) : RemoveGroupField(i, p[1], p[2])
    \/ \E i \in Overrides, g \in EditGroups : \E obj \in GroupValues(g) : SetGroup(i, g, obj)
    \/ BeginRead
    \/ \E p \in ReadPaths : ReadField(p)
    \/ EndRead
    \/ jupyter_enabled

Spec == Init /\ [][Next]_vars

-----------------------------------------------------------------------------
(* What the documents of the current sources say, read off the documents   *)
(* themselves.                                                             *)

\* A pass has run, so outcome holds the result of resolving the sources.
Resolved == outcome # None

Succeeded == Resolved /\ outcome[1].ok

Failed == Resolved /\ ~outcome[1].ok

\* Source i gives the top-level option k.
Gives(i, k) == k \in DOMAIN sources[i]

\* Source i gives field f of group g.
GivesLeaf(i, g, f) == g \in DOMAIN sources[i] /\ f \in DOMAIN sources[i][g]

\* The highest source that gives option k.
LastGiving(k) ==
    CHOOSE i \in Layers : Gives(i, k) /\ \A j \in Layers : j > i => ~Gives(j, k)

\* The highest source that gives field f of group g.
LastGivingLeaf(g, f) ==
    CHOOSE i \in Layers :
        GivesLeaf(i, g, f) /\ \A j \in Layers : j > i => ~GivesLeaf(j, g, f)

\* The options, and the fields of groups, that no source gives.
Ungiven == { k \in ScalarFields : \A i \in Layers : ~Gives(i, k) }

UngivenLeaves ==
    { p \in UNION { { << g, f >> : f \in GroupFields(g) } : g \in Groups } :
        \A i \in Layers : ~GivesLeaf(i, p[1], p[2]) }

\* The spellings an enumerated option accepts: the canonical names and,
\* for multi_cursor_modifier, the two legacy aliases.
Accepted(t) ==
    { SnakeCase(v) : v \in Variants(t) }
        \cup (IF t = "MultiCursorModifier" THEN { "cmd", "ctrl" } ELSE {})

\* Some source gives an enumerated option a spelling it does not accept.
UnknownSpelling ==
    \/ \E i \in Layers, k \in EnumFields :
          Gives(i, k) /\ sources[i][k] \notin Accepted(FieldType(k))
    \/ \E i \in Layers :
          /\ GivesLeaf(i, "scrollbar", "show")
          /\ sources[i].scrollbar.show \notin Accepted("ShowScrollbar")

\* Some source gives a count a negative number.
NegativeCount == \E i \in Layers, k \in CountFields : Gives(i, k) /\ sources[i][k] < 0

\* Every source's document can be read as an EditorSettingsContent.
WellFormed == ~UnknownSpelling /\ ~NegativeCount

\* The value the documentation of option k declares as its default.
DocumentedDefault(k) == DeserializeValue(FieldType(k), DefaultDocument[k]).v

-----------------------------------------------------------------------------
(* C1 *)

\* C1: after a successful pass every scalar option that some source gives
\* holds the value of the highest source giving it; sources that do not give
\* it (an empty document above it included) change nothing.
C1_ScalarLastWins ==
    Succeeded =>
        \A k \in ScalarFields \ Ungiven :
            outcome[1].v[k]
                = DeserializeValue(FieldType(k), sources[LastGiving(k)][k]).v

\* The scenario of C1: the defaults give a margin of 3, the user source 5,
\* the project source is empty, and the margin resolves to 5.
C1_Witness ==
    /\ Succeeded
    /\ sources[1].vertical_scroll_margin = 3
    /\ Gives(2, "vertical_scroll_margin")
    /\ sources[2].vertical_scroll_margin = 5
    /\ sources[3] = EmptyDocument
    /\ outcome[1].v.vertical_scroll_margin = 5

-----------------------------------------------------------------------------
(* C2 *)

\* C2: after a successful pass every field of every nested group holds the
\* value of the highest source giving that field, whatever other fields of
\* the group that source or a higher one gives.
C2_GroupsMergeLeafByLeaf ==
    Succeeded =>
        \A g \in Groups : \A f \in GroupFields(g) :
            (\E i \in Layers : GivesLeaf(i, g, f)) =>
                outcome[1].v[g][f]
                    = DeserializeValue(LeafType(g, f),
                                       sources[LastGivingLeaf(g, f)][g][f]).v

\* The scenario of C2: the user source gives only toolbar.breadcrumbs, and
\* the siblings keep the values of the defaults.
C2_Witness ==
    /\ Succeeded
    /\ Gives(2, "toolbar")
    /\ DOMAIN sources[2].toolbar = { "breadcrumbs" }
    /\ ~Gives(3, "toolbar")
    /\ outcome[1].v.toolbar
         = [ breadcrumbs |-> FALSE, quick_actions |-> TRUE, selections_menu |-> TRUE ]

-----------------------------------------------------------------------------
(* C3 *)

-----------------------------------------------------------------------------
(* C4 *)

\* The sources leave the resolved value undetermined: a source is not
\* well-formed, or no source gives some field that has no fallback.
Undetermined ==
    \/ ~WellFormed
    \/ Ungiven \ { "double_click_in_multibuffer" } # {}
    \/ UngivenLeaves # {}

\* C4: a step whose pass failed leaves the installed value as it was; the
\* installed value changes only to the result of a pass that succeeded; and
\* a pass over sources that leave the value undetermined installs nothing.
C4_FailureKeepsInstalled ==
    [][ /\ Failed' => installed' = installed
        /\ installed' # installed => (Succeeded' /\ installed' = Some(outcome'[1].v))
        /\ Undetermined' => installed' = installed ]_vars

\* The case of C4: the last pass failed and the store still holds the
\* result of an earlier pass over changed sources (cursor_blink off).
C4_Witness ==
    /\ Failed
    /\ installed # None
    /\ installed[1].cursor_blink = FALSE

-----------------------------------------------------------------------------
(* C5 *)

\* C5: while some source gives an enumerated option a spelling that is
\* neither a canonical name nor an alias, every pass fails and produces no
\* resolved value.
C5_UnknownSpellingFails ==
    (Resolved /\ UnknownSpelling) => outcome[1] = Failure

\* The case of C5: a pass over sources with an unknown spelling of
\* multi_cursor_modifier has failed.
C5_Witness ==
    /\ Failed
    /\ \E i \in Layers :
          Gives(i, "multi_cursor_modifier") /\ sources[i].multi_cursor_modifier = "bogus"

-----------------------------------------------------------------------------
(* C6 *)

LegacyAliases == { "cmd", "ctrl" }

\* Some source spells multi_cursor_modifier with a legacy alias.
GivesAlias ==
    \E i \in Layers :
        Gives(i, "multi_cursor_modifier")
            /\ sources[i].multi_cursor_modifier \in LegacyAliases

\* The sources with each legacy alias replaced by the canonical spelling.
Canonicalised ==
    [i \in Layers |->
        IF Gives(i, "multi_cursor_modifier")
              /\ sources[i].multi_cursor_modifier \in LegacyAliases
        THEN With(sources[i], "multi_cursor_modifier", "cmd_or_ctrl")
        ELSE sources[i]]

\* C6: the result of a pass over sources that use a legacy alias is the
\* result of resolving the same sources with cmd_or_ctrl in its place, and
\* each alias is read as CmdOrCtrl.
C6_AliasRoundTrip ==
    (Resolved /\ GivesAlias) =>
        /\ outcome[1] = Resolve(Canonicalised)
        /\ \A a \in LegacyAliases :
              DeserializeEnum("MultiCursorModifier", a) = Ok("CmdOrCtrl")

\* The scenario of C6: the defaults say alt, the user source ctrl, and the
\* option resolves to CmdOrCtrl.
C6_Witness ==
    /\ Succeeded
    /\ sources[1].multi_cursor_modifier = "alt"
    /\ Gives(2, "multi_cursor_modifier")
    /\ sources[2].multi_cursor_modifier = "ctrl"
    /\ ~Gives(3, "multi_cursor_modifier")
    /\ outcome[1].v.multi_cursor_modifier = "CmdOrCtrl"

-----------------------------------------------------------------------------
(* C7 *)

\* Everything the caller has read so far is what cfg holds.
SeenIn(cfg) == \A p \in DOMAIN seen : seen[p] = Get(cfg, p)

-----------------------------------------------------------------------------
(* C8 *)

\* v is a value of the declared type t.
HasType(t, v) ==
    CASE t = "bool" -> v \in BOOLEAN
      [] t \in { "u64", "u32" } -> v \in Nat
      [] t = "f32" -> v \in Int
      [] OTHER -> v \in Variants(t)

\* cfg gives every field of EditorSettings a value of its declared type.
FullyTyped(cfg) ==
    /\ DOMAIN cfg = TopFields
    /\ \A k \in ScalarFields : HasType(FieldType(k), cfg[k])
    /\ \A g \in Groups :
          /\ DOMAIN cfg[g] = GroupFields(g)
          /\ \A f \in GroupFields(g) : HasType(LeafType(g, f), cfg[g][f])

\* C8: the installed value, when there is one, has every field, each with a
\* value of its declared domain: booleans, canonical variants, and counts
\* that are not negative.
C8_InstalledWellTyped == installed # None => FullyTyped(installed[1])

\* The case of C8: a value is installed while a source gives a negative
\* count and another option was resolved from a legacy alias.
C8_Witness ==
    /\ installed # None
    /\ NegativeCount
    /\ installed[1].multi_cursor_modifier = "CmdOrCtrl"

-----------------------------------------------------------------------------
(* C9 *)

\* A step of jupyter_enabled.
AccessorStep ==
    /\ lastOp' = "jupyter_enabled"
    /\ steps' = steps + 1
    /\ reading' = reading

\* C9: jupyter_enabled returns jupyter.enabled of the installed value and
\* leaves the installed value as it is; the installed value changes only in
\* a step of a pass that succeeded.
C9_AccessorReadsOnly ==
    [][ /\ AccessorStep =>
              /\ returned' = Some(installed[1].jupyter.enabled)
              /\ installed' = installed
        /\ installed' # installed => (lastOp' = "load" /\ Succeeded') ]_vars

\* The case of C9: the accessor has returned false, read from a value
\* installed by a pass over changed sources.
C9_Witness ==
    /\ lastOp = "jupyter_enabled"
    /\ returned = Some(FALSE)
    /\ installed[1].jupyter.enabled = FALSE

-----------------------------------------------------------------------------
(* C10 *)

\* C10: a pass over well-formed sources succeeds exactly when every field
\* other than double_click_in_multibuffer is given by some source, fields
\* of nested groups included; and double_click_in_multibuffer, when no
\* source gives it, is then Select.
C10_SingleFallback ==
    (Resolved /\ WellFormed) =>
        /\ Succeeded <=>
              ( /\ Ungiven \subseteq { "double_click_in_multibuffer" }
                /\ UngivenLeaves = {} )
        /\ (Succeeded /\ "double_click_in_multibuffer" \in Ungiven) =>
              outcome[1].v.double_click_in_multibuffer = "Select"

\* The failing case of C10: the defaults lack jupyter.enabled, no other
\* source gives it, nothing else is amiss, and the pass has failed.
C10_Witness ==
    /\ Failed
    /\ WellFormed
    /\ Ungiven = {}
    /\ UngivenLeaves = { << "jupyter", "enabled" >> }

====
